---- MODULE Spec2Model ----
(***************************************************************************)
(* Model of src/src/main.rs: the planet store, Planet::update and          *)
(* update_planets (the physics step), handle_input, draw_ui and the frame  *)
(* loop of main.                                                           *)
(*                                                                         *)
(* Numbers.  The program computes in f32, and so does the model: FAdd,     *)
(* FSub, FMul, FDiv and FSqrt return the IEEE 754 binary32 result of the   *)
(* operation (round to nearest, ties to even, subnormals included), and    *)
(* the operations are applied in the order the source applies them.        *)
(* Infinities and NaN are outside the model (see Representable).           *)
(*                                                                         *)
(* State.  planets .. ui_enabled are the variables of main; pc is the      *)
(* position in the loop body, panic the panic that ended the program.      *)
(* remove_planet_index and acceleration keep the last value of the locals  *)
(* of draw_ui and Planet::update.  born, steps and frame_log observe the   *)
(* run: the number of steps made, its value when each body was created,    *)
(* and what the current frame has done so far.                             *)
(***************************************************************************)
EXTENDS Integers, Sequences, FiniteSets, TLC

VARIABLES planets, target, camera, planet_params, spawn_on_click, ui_enabled,
          remove_planet_index, pc, panic, acceleration, born, steps,
          frame_log

vars == <<planets, target, camera, planet_params, spawn_on_click, ui_enabled,
          remove_planet_index, pc, panic, acceleration, born, steps,
          frame_log>>

(***************************************************************************)
(* f32 (IEEE 754 binary32, the number type of the source).  An f32 is      *)
(* <<m, e>>, the number m * 2^e, with |m| < 2^24 and e >= -149, and        *)
(* |m| >= 2^23 unless e = -149 (a subnormal); zero is <<0, 0>>.  Every     *)
(* operator returns the nearest f32 to the exact result, ties to even.     *)
(* The sign of a zero is not kept: -0.0 equals 0.0 in every comparison     *)
(* and sum the program makes.                                              *)
(***************************************************************************)
Abs(a) == IF a < 0 THEN -a ELSE a
Sgn(a) == IF a < 0 THEN -1 ELSE IF a > 0 THEN 1 ELSE 0
Max(a, b) == IF a > b THEN a ELSE b

\* the binary digits of the significand, and the exponent of the subnormals
MantissaBits == 24
MinExponent == -149

F0 == <<0, 0>>

\* the largest k in lo .. hi with 2^k <= n
RECURSIVE TopBit(_, _, _)
TopBit(n, lo, hi) ==
    IF lo >= hi THEN lo
    ELSE IF n >= 2^((lo + hi + 1) \div 2)
         THEN TopBit(n, (lo + hi + 1) \div 2, hi)
         ELSE TopBit(n, lo, (lo + hi + 1) \div 2 - 1)

\* the number of binary digits of n, 0 <= n < 2^31
BitLen(n) == IF n = 0 THEN 0 ELSE 1 + TopBit(n, 0, 30)

\* n / 2^k (k >= 1) rounded to nearest, ties to even; sticky: the exact
\* value has nonzero digits below those of n
RoundShift(n, k, sticky) ==
    IF k > 30
    THEN IF k = 31 /\ (n > 2^30 \/ (n = 2^30 /\ sticky)) THEN 1 ELSE 0
    ELSE LET q == n \div 2^k
             rem == n % 2^k
             half == 2^(k - 1)
         IN  IF rem > half \/ (rem = half /\ (sticky \/ q % 2 = 1))
             THEN q + 1 ELSE q

\* the f32 of sign s, digits q and exponent e1 (a carry out of the rounding
\* moves to the next exponent)
Rounded(s, q, e1) ==
    IF q = 0 THEN F0
    ELSE IF q = 2^MantissaBits THEN <<s * 2^(MantissaBits - 1), e1 + 1>>
    ELSE <<s * q, e1>>

\* s * n * 2^e brought to the exponent e1
PackBits(s, n, sticky, e, e1) ==
    IF e1 <= e THEN <<s * n * 2^(e - e1), e1>>
    ELSE Rounded(s, RoundShift(n, e1 - e, sticky), e1)

\* the f32 nearest to s * n * 2^e, n < 2^31; sticky: the exact value has
\* nonzero digits below those of n (then n >= 2^25)
Pack(s, n, sticky, e) ==
    IF n = 0 THEN F0
    ELSE PackBits(s, n, sticky, e, Max(e + BitLen(n) - MantissaBits, MinExponent))

\* -a, |a|
FNeg(a) == <<-a[1], a[2]>>
FAbs(a) == <<Abs(a[1]), a[2]>>

ShiftUp(a, k) == <<Abs(a[1]) * 2^k, a[2] - k>>

\* |a| with its significand shifted up to 24 digits (a # 0)
Norm(a) ==
    IF Abs(a[1]) >= 2^(MantissaBits - 1) THEN FAbs(a)
    ELSE ShiftUp(a, MantissaBits - BitLen(Abs(a[1])))

\* the integer n, |n| < 2^31, as f32
FromInt(n) == Pack(Sgn(n), Abs(n), FALSE, 0)

\* the digits of y moved k places down, three guard digits kept and the
\* digits shifted out collected in the last one
Aligned(n, k) ==
    IF k = 0 THEN n
    ELSE IF k > 27 THEN 1
    ELSE (n \div 2^k) + (IF n % 2^k # 0 /\ (n \div 2^k) % 2 = 0 THEN 1 ELSE 0)

PackSum(sum, e) == Pack(Sgn(sum), Abs(sum), FALSE, e)

\* x + y with x[2] >= y[2], both nonzero
AddAligned(x, y) ==
    PackSum(x[1] * 8 + Sgn(y[1]) * Aligned(Abs(y[1]) * 8, x[2] - y[2]), x[2] - 3)

\* a + b
FAdd(a, b) ==
    IF a[1] = 0 THEN b
    ELSE IF b[1] = 0 THEN a
    ELSE IF a[2] >= b[2] THEN AddAligned(a, b) ELSE AddAligned(b, a)

\* a - b
FSub(a, b) == FAdd(a, FNeg(b))

\* a < b, a <= b: the sign of a difference is exact
FLt(a, b) == FSub(a, b)[1] < 0
FLe(a, b) == FSub(a, b)[1] <= 0

\* the product of two 24-digit significands as <<hi, lo>>, hi * 2^24 + lo,
\* from their 12-digit halves
MulWords(x, y) ==
    LET mid == (x \div 4096) * (y % 4096) + (x % 4096) * (y \div 4096)
        low == (x % 4096) * (y % 4096) + (mid % 4096) * 4096
    IN  <<(x \div 4096) * (y \div 4096) + mid \div 4096 + low \div 2^24,
          low % 2^24>>

MulPack(s, w, e) ==
    Pack(s, w[1] * 64 + w[2] \div 2^18, w[2] % 2^18 # 0, e + 18)

MulNorm(s, x, y) == MulPack(s, MulWords(x[1], y[1]), x[2] + y[2])

\* a * b
FMul(a, b) ==
    IF a[1] = 0 \/ b[1] = 0 THEN F0
    ELSE MulNorm(Sgn(a[1]) * Sgn(b[1]), Norm(a), Norm(b))

\* long division, seven digits a step: <<quotient, remainder>> of
\* (q * y + r) * 2^(7 n) by y
RECURSIVE DivDigits(_, _, _, _)
DivDigits(q, r, y, n) ==
    IF n = 0 THEN <<q, r>>
    ELSE DivDigits(q * 128 + (r * 128) \div y, (r * 128) % y, y, n - 1)

DivPack(s, qr, e) == Pack(s, qr[1], qr[2] # 0, e - 28)

DivNorm(s, x, y) ==
    DivPack(s, DivDigits(x[1] \div y[1], x[1] % y[1], y[1], 4), x[2] - y[2])

\* a / b  (b # 0)
FDiv(a, b) ==
    IF a[1] = 0 THEN F0
    ELSE DivNorm(Sgn(a[1]) * Sgn(b[1]), Norm(a), Norm(b))

\* Num(n, d): the f32 nearest to n/d, the value of a literal of the source
\* (0.1 is Num(1, 10))
Num(n, d) == FDiv(FromInt(n), FromInt(d))

\* largest r in lo..hi with r * r <= n
RECURSIVE ISqrt(_, _, _)
ISqrt(n, lo, hi) ==
    IF lo >= hi THEN lo
    ELSE LET mid == (lo + hi + 1) \div 2
         IN  IF mid * mid <= n THEN ISqrt(n, mid, hi) ELSE ISqrt(n, lo, mid - 1)

\* n more binary digits of a square root: <<root, remainder>>
RECURSIVE SqrtDigits(_, _, _)
SqrtDigits(root, rem, n) ==
    IF n = 0 THEN <<root, rem>>
    ELSE IF 4 * rem >= 4 * root + 1
         THEN SqrtDigits(2 * root + 1, 4 * rem - (4 * root + 1), n - 1)
         ELSE SqrtDigits(2 * root, 4 * rem, n - 1)

SqrtPack(rr, e) == Pack(1, rr[1], rr[2] # 0, e - 14)

SqrtFrom(n, r0, e) == SqrtPack(SqrtDigits(r0, n - r0 * r0, 14), e)

\* the root of n * 2^e, e even, 2^23 <= n < 2^25
SqrtEven(n, e) == SqrtFrom(n, ISqrt(n, 2896, 5792), e \div 2)

SqrtNorm(x) ==
    IF x[2] % 2 = 0 THEN SqrtEven(x[1], x[2]) ELSE SqrtEven(2 * x[1], x[2] - 1)

\* sqrt(a), a >= 0
FSqrt(a) == IF a[1] = 0 THEN F0 ELSE SqrtNorm(Norm(a))

\* x.powi(2) and x.recip()
powi2(a) == FMul(a, a)
recip(a) == FDiv(FromInt(1), a)

(***************************************************************************)
(* Vec2 (glam): records [x, y] of f32.                                     *)
(***************************************************************************)
vec2(x, y) == [x |-> x, y |-> y]
ZERO == vec2(F0, F0)
VAdd(a, b) == vec2(FAdd(a.x, b.x), FAdd(a.y, b.y))
VSub(a, b) == vec2(FSub(a.x, b.x), FSub(a.y, b.y))
VNeg(a) == vec2(FNeg(a.x), FNeg(a.y))
VScale(a, s) == vec2(FMul(a.x, s), FMul(a.y, s))
dot(a, b) == FAdd(FMul(a.x, b.x), FMul(a.y, b.y))
length_squared(a) == dot(a, a)
length(a) == FSqrt(length_squared(a))
length_recip(a) == recip(length(a))
\* glam: self * self.length_recip()
normalize(a) == VScale(a, length_recip(a))

(***************************************************************************)
(* Program constants.                                                      *)
(***************************************************************************)
G == Num(1, 10)
RESTITUTION_COEFFICIENT == Num(3, 10)
screen_width == Num(800, 1)
screen_height == Num(600, 1)

Color_new(r, g, b, a) == <<r, g, b, a>>
One == Num(1, 1)

(***************************************************************************)
(* Planet                                                                  *)
(***************************************************************************)
Planet_new(position, radius, velocity, mass, color) ==
    [position |-> position, radius |-> radius, velocity |-> velocity,
     mass |-> mass, history |-> <<>>, color |-> color]

\* mutant: the standard formula, the body's own mass divided out
force_magnitude_newton(self, other, distance_squared) ==
    FMul(G, FDiv(other.mass, distance_squared))

\* G * ((other_planet.mass * self.mass) / distance_squared)
force_magnitude(self, other, distance_squared) ==
    FMul(G, FDiv(FMul(other.mass, self.mass), distance_squared))

\* distance_squared <= (self.radius + other_planet.radius).powi(2)
overlaps(self, other, distance_squared) ==
    FLe(distance_squared, powi2(FAdd(self.radius, other.radius)))

\* (2.0 * self.mass * other.mass) / (self.mass + other.mass)
\*     * relative_velocity.dot(collision_normal), then * RESTITUTION_COEFFICIENT
collision_impulse(self, other, collision_normal) ==
    LET relative_velocity == VSub(self.velocity, other.velocity)
        impulse == FMul(FDiv(FMul(FMul(Num(2, 1), self.mass), other.mass),
                             FAdd(self.mass, other.mass)),
                        dot(relative_velocity, collision_normal))
    IN  FMul(impulse, RESTITUTION_COEFFICIENT)

\* mutant: the exclusion test looks at one coordinate only
same_body_y(self, other) == self.position.y = other.position.y

\* line 37, negated: the exclusion test is equality of the positions
same_body(self, other) == self.position = other.position

\* One iteration of the loop of Planet::update over other_planets[i].
\* st = [self, acceleration, others]; others is the slice the caller passed.
interact(st, i) ==
    LET self == st.self
        other_planet == st.others[i]
    IN  IF ~same_body(self, other_planet)
        THEN LET direction == VSub(other_planet.position, self.position)
                 distance_squared == length_squared(direction)
                 force == force_magnitude(self, other_planet, distance_squared)
                 acc == VAdd(st.acceleration, VScale(normalize(direction), force))
             IN  IF overlaps(self, other_planet, distance_squared)
                 THEN LET collision_normal == normalize(direction)
                          impulse == collision_impulse(self, other_planet, collision_normal)
                          dv == VScale(collision_normal, impulse)
                      IN  [self |-> [self EXCEPT !.velocity = VSub(self.velocity, dv)],
                           acceleration |-> acc,
                           others |-> [st.others EXCEPT ![i].velocity =
                                          VAdd(other_planet.velocity, dv)]]
                 ELSE [st EXCEPT !.acceleration = acc]
        ELSE st

\* for i in (0..other_planets.len()).rev()
RECURSIVE update_loop(_, _)
update_loop(st, i) ==
    IF i = 0 THEN st ELSE update_loop(interact(st, i), i - 1)

\* mutant: the new position is not recorded
integrate_no_push(self, acc) ==
    LET v == VAdd(self.velocity, acc)
        p == VAdd(self.position, v)
    IN  [self EXCEPT !.velocity = v, !.position = p]

\* self.velocity += acceleration; self.position += self.velocity;
\* self.history.push(self.position)
integrate(self, acc) ==
    LET v == VAdd(self.velocity, acc)
        p == VAdd(self.position, v)
    IN  [self EXCEPT !.velocity = v, !.position = p,
                     !.history = Append(self.history, p)]

\* lines 58-61 applied to the state the loop of Planet::update ends in
finish(st) ==
    [planet |-> integrate(st.self, st.acceleration),
     others |-> st.others,
     acceleration |-> st.acceleration]

\* Planet::update: the planet after the call, the slice after the call, and
\* the value of the local `acceleration` at line 58.
update(self, other_planets) ==
    finish(update_loop([self |-> self, acceleration |-> ZERO,
                        others |-> other_planets], Len(other_planets)))

\* st = [planets, planets_clone, acceleration]; r is what pass k returned
after_pass(st, k, r) ==
    [planets |-> [st.planets EXCEPT ![k] = r.planet],
     planets_clone |-> r.others,
     acceleration |-> Append(st.acceleration, r.acceleration)]

\* Passes k..n of the loop of update_planets:
\* planets[k].update(&mut planets_clone)
RECURSIVE update_passes(_, _, _)
update_passes(st, k, n) ==
    IF k > n THEN st
    ELSE update_passes(after_pass(st, k, update(st.planets[k], st.planets_clone)),
                       k + 1, n)

\* mutant: the copy is taken anew before every pass, so a pass sees the
\* bodies already moved by the earlier passes
RECURSIVE update_passes_reclone(_, _)
update_passes_reclone(st, k) ==
    IF k > Len(st.planets) THEN st
    ELSE update_passes_reclone(
             after_pass(st, k, update(st.planets[k], st.planets)), k + 1)

update_planets_reclone(ps) ==
    update_passes_reclone([planets |-> ps, planets_clone |-> ps,
                           acceleration |-> <<>>], 1)

\* update_planets: planets_clone = planets.clone(); every planet is updated
\* against the one clone
update_planets(ps) ==
    update_passes([planets |-> ps, planets_clone |-> ps, acceleration |-> <<>>],
                  1, Len(ps))

(***************************************************************************)
(* PlanetParams, the store, the camera                                     *)
(***************************************************************************)
PlanetParams_new ==
    [radius |-> Num(10, 1), mass |-> Num(10, 1), velocity |-> vec2(F0, F0),
     color |-> Color_new(One, One, One, One)]

\* main, lines 251-266, with the 800 x 600 window of window_conf
InitialPlanets ==
    << Planet_new(vec2(FDiv(screen_width, Num(2, 1)), FDiv(screen_height, Num(2, 1))),
                  Num(5, 1), vec2(FNeg(Num(1, 10)), FNeg(Num(1, 10))), Num(5, 1),
                  Color_new(One, F0, F0, One)),
       Planet_new(vec2(FAdd(FDiv(screen_width, Num(2, 1)), Num(100, 1)),
                       FDiv(screen_height, Num(2, 1))),
                  Num(10, 1), vec2(Num(1, 10), Num(1, 10)), Num(10, 1),
                  Color_new(One, One, One, One)) >>

\* mutant: Vec::swap_remove, the last element takes the removed one's place
swap_remove(s, index) ==
    IF index + 1 = Len(s) THEN SubSeq(s, 1, Len(s) - 1)
    ELSE SubSeq([s EXCEPT ![index + 1] = s[Len(s)]], 1, Len(s) - 1)

\* Vec::remove(index), index counted from 0 and < len
remove(s, index) == SubSeq(s, 1, index) \o SubSeq(s, index + 2, Len(s))

\* planets[target], target counted from 0
at(s, index) == s[index + 1]

(***************************************************************************)
(* Bounds of the explored state space.                                     *)
(***************************************************************************)
MaxFrames == 3
MaxBodies == 3
MaxSteps == 2
MaxStepBodies == 4

\* A range of stores from which a step meets no infinity and no NaN: masses
\* positive and radii not negative, as the sliders leave them, speeds and
\* coordinates bounded, and bodies at different positions far enough apart
\* for the square of their distance not to vanish.  A step is taken only
\* from such a store.
MaxSpeed == Num(1000000, 1)
MaxCoordinate == Num(1000000000, 1)
MaxMass == Num(1000, 1)
MaxRadius == Num(100, 1)
MinDistanceSquared == Num(1, 1000000000)

InRange(a, bound) == FLe(FAbs(a), bound)

Representable(ps) ==
    /\ \A i \in DOMAIN ps :
          /\ InRange(ps[i].velocity.x, MaxSpeed) /\ InRange(ps[i].velocity.y, MaxSpeed)
          /\ InRange(ps[i].position.x, MaxCoordinate)
          /\ InRange(ps[i].position.y, MaxCoordinate)
          /\ FLt(F0, ps[i].mass) /\ FLe(ps[i].mass, MaxMass)
          /\ FLe(F0, ps[i].radius) /\ FLe(ps[i].radius, MaxRadius)
    /\ \A i, j \in DOMAIN ps :
          ps[i].position # ps[j].position =>
             FLe(MinDistanceSquared,
                 length_squared(VSub(ps[j].position, ps[i].position)))

(***************************************************************************)
(* Inputs of a frame.                                                      *)
(***************************************************************************)
\* world positions of the mouse (camera.screen_to_world(mouse_position()))
ClickPositions ==
    { vec2(Num(405, 1), Num(300, 1)), vec2(Num(430, 1), Num(340, 1)) }

\* values the sliders of the Settings node can leave in planet_params
SliderSettings ==
    { PlanetParams_new,
      [radius |-> Num(5, 1), mass |-> Num(2, 1),
       velocity |-> vec2(FNeg(Num(1, 2)), F0),
       color |-> Color_new(F0, One, F0, One)] }

None == <<>>
Some(i) == <<i>>

\* the panics of the program
IndexOutOfBounds == "index out of bounds"
RemainderByZero == "attempt to calculate the remainder with a divisor of zero"
SubtractOverflow == "attempt to subtract with overflow"

(***************************************************************************)
(* handle_input                                                            *)
(***************************************************************************)
\* *target = (*target + 1) % planets.len()
focus_next(t, len) ==
    IF len = 0 THEN [panic |-> RemainderByZero, target |-> t]
    ELSE [panic |-> "none", target |-> (t + 1) % len]

\* *target = (*target + planets.len() - 1) % planets.len()
\* With overflow checks the subtraction panics when target + len = 0; without
\* them it wraps and the remainder by zero panics.
focus_previous(t, len, overflow_checks) ==
    IF t + len - 1 < 0 /\ overflow_checks
    THEN [panic |-> SubtractOverflow, target |-> t]
    ELSE IF len = 0
    THEN [panic |-> RemainderByZero, target |-> t]
    ELSE [panic |-> "none", target |-> (t + len - 1) % len]

\* in: [right, mouse, z, x, u, overflow_checks].  Lines 155-156 set the zoom
\* of the Camera2D that handle_input received by value; main's camera keeps
\* its zoom, so the mouse wheel changes no state.
handle_input(in) ==
    LET spawn == spawn_on_click /\ in.right
        ps == IF spawn
              THEN Append(planets, Planet_new(in.mouse, planet_params.radius,
                              planet_params.velocity, planet_params.mass,
                              planet_params.color))
              ELSE planets
        afterZ == IF in.z THEN focus_next(target, Len(ps))
                  ELSE [panic |-> "none", target |-> target]
        afterX == IF afterZ.panic = "none" /\ in.x
                  THEN focus_previous(afterZ.target, Len(ps), in.overflow_checks)
                  ELSE afterZ
    IN  [planets |-> ps, spawned |-> spawn, focused |-> in.z \/ in.x,
         target |-> afterX.target,
         panic |-> afterX.panic,
         ui_enabled |-> IF afterX.panic = "none" /\ in.u THEN ~ui_enabled
                        ELSE ui_enabled]

(***************************************************************************)
(* The frame loop of main.                                                 *)
(***************************************************************************)
\* mutant: input is handled before the physics step
main_loop_input_first == <<"follow", "input", "update", "draw", "ui", "next_frame">>

\* the statements of the loop body in program order
main_loop == <<"follow", "update", "input", "draw", "ui", "next_frame">>

next_pc(p) ==
    LET i == CHOOSE k \in DOMAIN main_loop : main_loop[k] = p
    IN  IF i = Len(main_loop) THEN main_loop[1] ELSE main_loop[i + 1]

Init ==
    /\ planet_params = PlanetParams_new
    /\ camera = [target |-> vec2(FDiv(screen_width, Num(2, 1)),
                                    FDiv(screen_height, Num(2, 1)))]
    /\ target = 0
    /\ planets = InitialPlanets
    /\ spawn_on_click = FALSE
    /\ ui_enabled = FALSE
    /\ remove_planet_index = None
    /\ pc = "follow"
    /\ panic = "none"
    /\ acceleration = <<>>
    /\ born = <<0, 0>>
    /\ steps = 0
    /\ frame_log = <<>>

Running(p) == pc = p /\ panic = "none"

\* lines 274-278: camera.target = planets[target].position, or target = 0
Follow ==
    /\ Running("follow")
    /\ IF planets # <<>>
       THEN IF target < Len(planets)
            THEN /\ camera' = [camera EXCEPT !.target = at(planets, target).position]
                 /\ UNCHANGED <<target, panic>>
            ELSE /\ panic' = IndexOutOfBounds
                 /\ UNCHANGED <<target, camera>>
       ELSE /\ target' = 0
            /\ UNCHANGED <<camera, panic>>
    /\ pc' = IF panic' = "none" THEN next_pc(pc) ELSE pc
    /\ frame_log' = Append(frame_log, "follow")
    /\ UNCHANGED <<planets, planet_params, spawn_on_click, ui_enabled,
                   remove_planet_index, acceleration, born, steps>>

\* line 280: update_planets(&mut planets)
UpdatePlanets ==
    /\ Running("update")
    /\ Representable(planets)
    /\ \E r \in {update_planets(planets)} :
          /\ planets' = r.planets
          /\ acceleration' = r.acceleration
    /\ steps' = steps + 1
    /\ pc' = next_pc(pc)
    /\ frame_log' = Append(frame_log, "step")
    /\ UNCHANGED <<target, camera, planet_params, spawn_on_click, ui_enabled,
                   remove_planet_index, panic, born>>

\* lines 281-288: handle_input(...)
HandleInput ==
    /\ Running("input")
    /\ \E right \in {b \in BOOLEAN : b => Len(planets) < MaxBodies},
          mouse \in ClickPositions, z, x, u, oc \in BOOLEAN :
          \E r \in {handle_input([right |-> right, mouse |-> mouse, z |-> z,
                                  x |-> x, u |-> u, overflow_checks |-> oc])} :
              /\ planets' = r.planets
              /\ born' = IF r.spawned THEN Append(born, steps) ELSE born
              /\ target' = r.target
              /\ panic' = r.panic
              /\ ui_enabled' = r.ui_enabled
              /\ frame_log' = frame_log \o (IF r.spawned THEN <<"spawn">> ELSE <<>>)
                                        \o (IF r.focused THEN <<"focus">> ELSE <<>>)
                                        \o <<"input">>
    /\ pc' = IF panic' = "none" THEN next_pc(pc) ELSE pc
    /\ UNCHANGED <<camera, planet_params, spawn_on_click, remove_planet_index,
                   acceleration, steps>>

\* lines 290-292: set_camera, draw_planets, set_default_camera
DrawPlanets ==
    /\ Running("draw")
    /\ pc' = next_pc(pc)
    /\ frame_log' = Append(frame_log, "draw")
    /\ UNCHANGED <<planets, target, camera, planet_params, spawn_on_click,
                   ui_enabled, remove_planet_index, panic, acceleration, born, steps>>

\* lines 294-296 with ui_enabled: draw_ui.  The sliders and the checkbox
\* write planet_params and spawn_on_click; a pressed Remove button sets
\* remove_planet_index, and that planet is removed.
DrawUi ==
    /\ Running("ui")
    /\ ui_enabled
    /\ \E settings \in SliderSettings, checkbox \in BOOLEAN,
          button \in {None} \cup {Some(i) : i \in 0 .. Len(planets) - 1} :
          /\ planet_params' = settings
          /\ spawn_on_click' = checkbox
          /\ remove_planet_index' = button
          /\ IF button # None
             THEN /\ planets' = remove(planets, button[1])
                  /\ born' = remove(born, button[1])
                  /\ frame_log' = frame_log \o <<"remove", "ui">>
             ELSE /\ UNCHANGED <<planets, born>>
                  /\ frame_log' = Append(frame_log, "ui")
    /\ pc' = next_pc(pc)
    /\ UNCHANGED <<target, camera, ui_enabled, panic, acceleration, steps>>

\* lines 294-296 with ui_enabled false
SkipUi ==
    /\ Running("ui")
    /\ ~ui_enabled
    /\ pc' = next_pc(pc)
    /\ UNCHANGED <<planets, target, camera, planet_params, spawn_on_click,
                   ui_enabled, remove_planet_index, panic, acceleration, born,
                   steps, frame_log>>

\* line 298: next_frame().await
NextFrame ==
    /\ Running("next_frame")
    /\ steps < MaxFrames
    /\ pc' = next_pc(pc)
    /\ frame_log' = <<>>
    /\ UNCHANGED <<planets, target, camera, planet_params, spawn_on_click,
                   ui_enabled, remove_planet_index, panic, acceleration, born, steps>>

Next == Follow \/ UpdatePlanets \/ HandleInput \/ DrawPlanets \/ DrawUi
        \/ SkipUi \/ NextFrame

Spec == Init /\ [][Next]_vars

(***************************************************************************)
(* The physics step on its own: update_planets applied to stores drawn     *)
(* from a bounded set of bodies.                                           *)
(***************************************************************************)
\* a body as handle_input creates it from a mouse position and the settings
Spawned(x, y, q) ==
    Planet_new(vec2(Num(x, 1), Num(y, 1)), q.radius, q.velocity, q.mass, q.color)

MovingRight ==
    [radius |-> Num(10, 1), mass |-> Num(2, 1), velocity |-> vec2(Num(1, 2), F0),
     color |-> Color_new(F0, One, F0, One)]

MovingLeft ==
    [radius |-> Num(10, 1), mass |-> Num(2, 1),
     velocity |-> vec2(FNeg(Num(1, 2)), F0),
     color |-> Color_new(F0, F0, One, One)]

\* the two planets main starts with; a pair of equal mass that overlaps and
\* approaches head-on; a body at the position of another; a body off the axis
StepBodies ==
    { InitialPlanets[1], InitialPlanets[2],
      Spawned(400, 300, MovingRight), Spawned(410, 300, MovingLeft),
      Spawned(400, 300, PlanetParams_new), Spawned(430, 340, PlanetParams_new) }

\* the stores of up to MaxStepBodies of these bodies, in every order
StepStores ==
    UNION { { ps \in [1 .. n -> StepBodies] :
                \A i, j \in 1 .. n : ps[i] = ps[j] => i = j } :
            n \in 0 .. MaxStepBodies }

StepInit ==
    /\ planets \in StepStores
    /\ born = [i \in DOMAIN planets |-> 0]
    /\ steps = 0
    /\ acceleration = <<>>
    /\ pc = "step"
    /\ panic = "none"
    /\ planet_params = PlanetParams_new
    /\ camera = [target |-> vec2(FDiv(screen_width, Num(2, 1)),
                                    FDiv(screen_height, Num(2, 1)))]
    /\ target = 0
    /\ spawn_on_click = FALSE
    /\ ui_enabled = FALSE
    /\ remove_planet_index = None
    /\ frame_log = <<>>

\* step(bodies): update_planets(&mut planets)
Step ==
    /\ pc = "step"
    /\ steps < MaxSteps
    /\ Representable(planets)
    /\ \E r \in {update_planets(planets)} :
          /\ planets' = r.planets
          /\ acceleration' = r.acceleration
    /\ steps' = steps + 1
    /\ UNCHANGED <<target, camera, planet_params, spawn_on_click, ui_enabled,
                   remove_planet_index, pc, panic, born, frame_log>>

StepNext == Step

StepSpec == StepInit /\ [][StepNext]_vars

(***************************************************************************)
(* Properties of the physics step (checked under StepSpec).                *)
(***************************************************************************)
\* equal up to rounding: the difference is at most Tolerance times the sizes
Tolerance == Num(1, 100000)
Close(a, b) == FLe(FAbs(FSub(a, b)), FMul(Tolerance, FAdd(FAbs(a), FAbs(b))))
VClose(a, b) ==
    FLe(length(VSub(a, b)), FMul(Tolerance, FAdd(length(a), length(b))))
cross(a, b) == FSub(FMul(a.x, b.y), FMul(a.y, b.x))

IsStep == steps' = steps + 1

\* the bodies do not touch: distance_squared > (radius + radius)^2
Apart(a, b) ==
    FLt(powi2(FAdd(a.radius, b.radius)),
        length_squared(VSub(b.position, a.position)))

\* the store after one step of the store ps
Stepped(ps) == update_planets(ps).planets

\* the copy of the store as pass k of update_planets finds it
CloneBefore(ps, k) ==
    update_passes([planets |-> ps, planets_clone |-> ps, acceleration |-> <<>>],
                  1, k - 1).planets_clone

\* G * mA * mB / d^2
GravityMagnitude(a, b) ==
    FDiv(FMul(FMul(G, a.mass), b.mass),
         length_squared(VSub(b.position, a.position)))

\* C5: two bodies at distinct positions that do not overlap: one step adds
\* to each body's velocity an acceleration of magnitude G*mA*mB/d^2 (up to
\* rounding) directed toward the other body, the two accelerations are
\* exactly opposite, and each body moves by its new velocity.
C5_GravitySymmetric ==
    [][ (IsStep /\ Len(planets) = 2
           /\ planets[1].position # planets[2].position
           /\ Apart(planets[1], planets[2])) =>
        LET a == planets[1]
            b == planets[2]
            toB == normalize(VSub(b.position, a.position))
        IN  /\ acceleration'[2] = VNeg(acceleration'[1])
            /\ Close(length(acceleration'[1]), GravityMagnitude(a, b))
            /\ VClose(acceleration'[1], VScale(toB, GravityMagnitude(a, b)))
            /\ planets'[1].velocity = VAdd(a.velocity, acceleration'[1])
            /\ planets'[2].velocity = VAdd(b.velocity, acceleration'[2])
            /\ planets'[1].position = VAdd(a.position, planets'[1].velocity)
            /\ planets'[2].position = VAdd(b.position, planets'[2].velocity)
      ]_vars

\* the two planets main starts with, masses 5 and 10 at distance 100, have
\* made a step: each has been pulled by 5e-4 toward the other
C5_Witness ==
    /\ pc = "step" /\ steps = 1
    /\ Apart(InitialPlanets[1], InitialPlanets[2])
    /\ planets = Stepped(InitialPlanets)
    /\ Close(acceleration[1].x, Num(5, 10000)) /\ acceleration[1].y = F0
    /\ acceleration[2] = VNeg(acceleration[1])

\* the pull of body j on body i, from the positions and masses in ps
Pull(ps, i, j) ==
    VScale(normalize(VSub(ps[j].position, ps[i].position)),
           FMul(G, FDiv(FMul(ps[j].mass, ps[i].mass),
                        length_squared(VSub(ps[j].position, ps[i].position)))))

\* acc plus the pulls on body i of the bodies j, j-1 .. 1 at another
\* position, added in that order
RECURSIVE PullSum(_, _, _, _)
PullSum(ps, i, j, acc) ==
    IF j = 0 THEN acc
    ELSE PullSum(ps, i, j - 1,
                 IF ps[j].position # ps[i].position
                 THEN VAdd(acc, Pull(ps, i, j)) ELSE acc)

\* C6: a body receives neither gravity nor impulse from a body whose position
\* at the start of the step equals its own: its acceleration is the sum of
\* the pulls of the bodies at other positions, and a body that has only
\* bodies at its own position around it (or none) keeps its velocity and
\* advances by exactly that velocity.
C6_CoincidentExcluded ==
    [][ IsStep =>
        \A i \in DOMAIN planets :
          /\ acceleration'[i] = PullSum(planets, i, Len(planets), ZERO)
          /\ (\A j \in DOMAIN planets : planets[j].position = planets[i].position) =>
                /\ acceleration'[i] = ZERO
                /\ planets'[i].velocity = planets[i].velocity
                /\ planets'[i].position =
                       VAdd(planets[i].position, planets[i].velocity)
      ]_vars

\* two bodies that overlap completely, one of them moving, have made a step
CoincidentPair ==
    <<Spawned(400, 300, MovingRight), Spawned(400, 300, PlanetParams_new)>>

C6_Witness ==
    /\ pc = "step" /\ steps = 1
    /\ CoincidentPair[1].position = CoincidentPair[2].position
    /\ planets = Stepped(CoincidentPair)
    /\ planets[1].velocity = MovingRight.velocity
    /\ planets[2].velocity = ZERO
    /\ acceleration = <<ZERO, ZERO>>

\* the store with its first body moved to the end, and with its first two
\* bodies exchanged (the two generate every reordering)
Rotate(ps) == IF Len(ps) < 2 THEN ps ELSE Append(Tail(ps), Head(ps))
SwapFirst(ps) == IF Len(ps) < 2 THEN ps ELSE <<ps[2], ps[1]>> \o Tail(Tail(ps))

\* C9 as stated: gravity and the overlap test of every body are evaluated
\* against the positions at the start of the step, and reordering the store
\* reorders the accumulated accelerations and changes none; a body that
\* touches no body at the start of the step gets no impulse (its velocity
\* changes by its acceleration).
C9_StartPositions ==
    [][ IsStep =>
        /\ update_planets(Rotate(planets)).acceleration = Rotate(acceleration')
        /\ update_planets(SwapFirst(planets)).acceleration = SwapFirst(acceleration')
        /\ \A i \in DOMAIN planets :
              (\A j \in DOMAIN planets :
                  planets[j].position = planets[i].position
                  \/ Apart(planets[i], planets[j])) =>
              planets'[i].velocity = VAdd(planets[i].velocity, acceleration'[i])
      ]_vars

\* acc plus the sizes of the pulls on body i of the bodies j .. 1
RECURSIVE PullSize(_, _, _, _)
PullSize(ps, i, j, acc) ==
    IF j = 0 THEN acc
    ELSE PullSize(ps, i, j - 1,
                  IF ps[j].position # ps[i].position
                  THEN FAdd(acc, length(Pull(ps, i, j))) ELSE acc)

\* the accelerations b of the reordered store qs are those of a: the same
\* when at most two pulls are added, else the same up to the rounding of the
\* sum of the pulls
SameAccelerations(a, b, qs) ==
    \A i \in DOMAIN qs :
       \/ a[i] = b[i]
       \/ /\ Len(qs) > 3
          /\ FLe(length(VSub(a[i], b[i])),
                 FMul(Tolerance, PullSize(qs, i, Len(qs), F0)))

\* C9 amended: the acceleration and the overlap test of every body are
\* evaluated against the store as it was at the start of the step, whatever
\* the passes of the earlier bodies did; reordering the store reorders the
\* accumulated accelerations and changes them by no more than the rounding of
\* the f32 sum, whose terms are added in the reverse of the stored order; a
\* body that touches no body at the start of the step gets no impulse.
C9_StartPositionsRounded ==
    [][ IsStep =>
        /\ \A i \in DOMAIN planets :
              acceleration'[i] = update(planets[i], planets).acceleration
        /\ SameAccelerations(update_planets(Rotate(planets)).acceleration,
                             Rotate(acceleration'), Rotate(planets))
        /\ SameAccelerations(update_planets(SwapFirst(planets)).acceleration,
                             SwapFirst(acceleration'), SwapFirst(planets))
        /\ \A i \in DOMAIN planets :
              (\A j \in DOMAIN planets :
                  planets[j].position = planets[i].position
                  \/ Apart(planets[i], planets[j])) =>
              planets'[i].velocity = VAdd(planets[i].velocity, acceleration'[i])
      ]_vars

\* four bodies at four positions have made a step: the second touched none
\* and was pulled by the three others, and the store in another order gives
\* other accelerations
FourBodies ==
    <<InitialPlanets[1], InitialPlanets[2], Spawned(430, 340, PlanetParams_new),
      Spawned(410, 300, MovingLeft)>>

C9_Witness ==
    /\ pc = "step" /\ steps = 1
    /\ \A i, j \in 1 .. 4 : i # j => FourBodies[i].position # FourBodies[j].position
    /\ \A j \in {1, 3, 4} : Apart(FourBodies[2], FourBodies[j])
    /\ ~Apart(FourBodies[1], FourBodies[4])
    /\ planets = Stepped(FourBodies)
    /\ \A i \in 1 .. 4 : acceleration[i] # ZERO
    /\ acceleration[2].y # F0
    /\ planets[2].velocity = VAdd(FourBodies[2].velocity, acceleration[2])
    /\ update_planets(Rotate(FourBodies)).acceleration # Rotate(acceleration)

\* the velocity change of the step without its gravity term
Collision(i) ==
    VSub(VSub(planets'[i].velocity, acceleration'[i]), planets[i].velocity)

\* C4: gravity disregarded, two overlapping bodies of equal mass that approach
\* head-on exchange their velocities, scaled by the restitution coefficient,
\* whatever the common mass: the exchange v += e * (v_other - v), or the
\* exchanged velocity itself scaled, v = e * v_other (with e = 1 both are the
\* full exchange).
C4_EqualMassExchange ==
    [][ (IsStep /\ Len(planets) = 2
           /\ planets[1].mass = planets[2].mass
           /\ planets[1].position # planets[2].position
           /\ ~Apart(planets[1], planets[2])
           /\ LET rel == VSub(planets[1].velocity, planets[2].velocity)
                  d == VSub(planets[2].position, planets[1].position)
              IN  cross(rel, d) = F0 /\ FLt(F0, dot(rel, d))) =>
        LET vA == planets[1].velocity
            vB == planets[2].velocity
            e == RESTITUTION_COEFFICIENT
        IN  \/ /\ VClose(Collision(1), VScale(VSub(vB, vA), e))
               /\ VClose(Collision(2), VScale(VSub(vA, vB), e))
            \/ /\ VClose(VAdd(vA, Collision(1)), VScale(vB, e))
               /\ VClose(VAdd(vB, Collision(2)), VScale(vA, e))
      ]_vars

\* the store as pass k of update_planets finds it
LiveBefore(ps, k) ==
    update_passes([planets |-> ps, planets_clone |-> ps, acceleration |-> <<>>],
                  1, k - 1).planets

\* C7: the impulse computed in the pass of body b is applied at once to the
\* other body o of the stepped set: the pass of a later body o starts from
\* the velocity the earlier passes left o with, and o ends the step with what
\* its own pass makes of that velocity (the other bodies read from the copy,
\* or from the store itself).
C7_ImpulseReachesOther ==
    [][ IsStep =>
        \A k \in 2 .. Len(planets) :
          LET o == [planets[k] EXCEPT !.velocity = CloneBefore(planets, k)[k].velocity]
          IN  \/ planets'[k] = update(o, CloneBefore(planets, k)).planet
              \/ planets'[k] = update(o, LiveBefore(planets, k)).planet
      ]_vars

(***************************************************************************)
(* Properties of the store and of the frame loop (checked under Spec).     *)
(* born[i] is the value of steps when planets[i] was created; frame_log    *)
(* lists what the current frame has done so far.                           *)
(***************************************************************************)
Last(q) == q[Len(q)]
Has(q, e) == \E i \in DOMAIN q : q[i] = e
Precedes(q, a, b) == \A i, j \in DOMAIN q : (q[i] = a /\ q[j] = b) => i < j

\* C1: the history of every body in the store is as long as the number of
\* steps made since the body was created; a step appends the body's new
\* position and keeps the earlier entries; no other operation changes the
\* history of a body that stays, and a new body starts with none.
C1_HistoryGrowth ==
    [][ /\ \A i \in DOMAIN planets' :
              Len(planets'[i].history) = steps' - born'[i]
        /\ IF steps' = steps + 1
           THEN /\ Len(planets') = Len(planets)
                /\ \A i \in DOMAIN planets :
                      planets'[i].history =
                          Append(planets[i].history, planets'[i].position)
           ELSE \A i \in DOMAIN planets' :
                   \/ \E j \in DOMAIN planets : planets'[i] = planets[j]
                   \/ planets'[i].history = <<>> /\ born'[i] = steps
      ]_vars

C1_Witness ==
    /\ Len(planets) = 3
    /\ born[1] = 0 /\ Len(planets[1].history) = 3
    /\ born[3] = 2 /\ Len(planets[3].history) = 1
    /\ planets[3].history[1] = planets[3].position

\* C2: removing the body at index i < len leaves the other bodies in their
\* order, those behind i one index lower, each unchanged, and leaves the
\* focused index as it was.
C2_RemoveShifts ==
    [][ (pc = "ui" /\ pc' # pc /\ ui_enabled /\ remove_planet_index' # None) =>
        LET i == remove_planet_index'[1]
        IN  /\ i < Len(planets)
            /\ Len(planets') = Len(planets) - 1
            /\ \A j \in 1 .. Len(planets') :
                  planets'[j] = IF j <= i THEN planets[j] ELSE planets[j + 1]
            /\ target' = target
      ]_vars

\* [A, B, C] with remove(1) has become [A, C]; the focus, on C before, is
\* still 2
C2_Witness ==
    /\ pc = "next_frame" /\ Has(frame_log, "remove")
    /\ remove_planet_index = Some(1)
    /\ Len(planets) = 2 /\ born = <<0, 2>>
    /\ target = 2

\* C3: whenever the store is not empty, the focused index is a valid index
\* where the loop reads planets[target] for the camera, removals included.
C3_FocusValid ==
    /\ panic # IndexOutOfBounds
    /\ (pc = "follow" /\ planets # <<>>) => target < Len(planets)

\* C8 as stated: in a frame the spawn and the removal come first, then the
\* step, then the rendering, and every rendered body has been stepped in the
\* frame.
C8_InputStepRender ==
    /\ Precedes(frame_log, "spawn", "step")
    /\ Precedes(frame_log, "remove", "step")
    /\ Precedes(frame_log, "step", "draw")
    /\ (frame_log # <<>> /\ Last(frame_log) = "draw") =>
          /\ Has(frame_log, "step")
          /\ \A i \in DOMAIN planets : born[i] < steps

\* C8 amended: in a frame the step comes first, then the input with its
\* spawn, then the rendering, then the panel with its removal; every
\* rendered body has been stepped in the frame, except the one spawned in it.
C8_StepInputRender ==
    /\ Precedes(frame_log, "step", "spawn")
    /\ Precedes(frame_log, "step", "input")
    /\ Precedes(frame_log, "spawn", "draw")
    /\ Precedes(frame_log, "input", "draw")
    /\ Precedes(frame_log, "draw", "remove")
    /\ Precedes(frame_log, "draw", "ui")
    /\ Cardinality({i \in DOMAIN frame_log : frame_log[i] = "step"}) <= 1
    /\ (frame_log # <<>> /\ Last(frame_log) = "draw") =>
          /\ Has(frame_log, "step")
          /\ \A i \in DOMAIN planets :
                \/ born[i] < steps
                \/ i = Len(planets) /\ Has(frame_log, "spawn")

C8_Witness ==
    /\ pc = "next_frame"
    /\ frame_log = <<"follow", "step", "spawn", "input", "draw", "remove", "ui">>
    /\ Len(planets) = 2 /\ born[2] = steps

\* C10: a focus key never faults, whatever the size of the store, and with a
\* store that is not empty it leaves the focused index below the size.
C10_FocusKeysSafe ==
    /\ panic \notin {RemainderByZero, SubtractOverflow}
    /\ (pc = "draw" /\ Has(frame_log, "focus") /\ planets # <<>>) =>
          target < Len(planets)

====
